---------------------------- MODULE Spec2Model ----------------------------
(***************************************************************************)
(* Model of claude-code-augment: the streaming transcoder and the         *)
(* response conversion of the OpenRouter forwarder (OpenRouterForwarder), *)
(* the request detector (ClaudeCodeDetector), the request augmenter       *)
(* (RequestAugmenter) and the middleware that runs them                   *)
(* (AugmentMiddleware).                                                    *)
(***************************************************************************)
EXTENDS Integers, Sequences, FiniteSets, TLC

VARIABLES
    conv,       \* one record per running transformOpenRouterToAnthropic call
    config,     \* the AugmentConfig the components were constructed with
    req,        \* the AugmentRequest handed to the component under study
    detected,   \* the call's position and what isClaudeCodeRequest returned
    augmentation, \* the call's position and what augmentRequest returned
    conversion, \* a convertContent call: its argument and what it returned
    response,   \* a provider response body and its non-streaming conversion
    handling    \* a run of AugmentMiddleware.handle and the reply it writes

vars ==
    <<conv, config, req, detected, augmentation, conversion, response,
      handling>>

(***************************************************************************)
(* Bounds.                                                                 *)
(***************************************************************************)
\* pieces of provider text one stream delivers before it closes or fails
MaxInput == 4
\* pieces two concurrent streams deliver together
MaxInterleaved == 3
\* headers one request carries
MaxHeaders == 2

(***************************************************************************)
(* Provider text.  The provider's bytes are modelled as a sequence of      *)
(* pieces of text.  A piece is a newline or a run of characters without a  *)
(* newline; `pre' says whether the run begins with the six characters      *)
(* 'data: ' and `body' what the rest of the run is:                        *)
(*   "object"  a complete JSON object (fields content, usage,              *)
(*             finish_reason: what choices[0].delta.content, usage and     *)
(*             choices[0].finish_reason hold; "" and <<>> when absent)     *)
(*   "null"    the JSON text null                                          *)
(*   "[DONE]"  the sentinel                                                *)
(*   "text"    characters that are no JSON, e.g. '}' or ': ping'           *)
(*   ""        nothing                                                     *)
(* A chunk of a read is any non-empty sequence of pieces, so a line can be *)
(* cut between any two of its pieces: 'data: ' and the object of FrameA    *)
(* may arrive in different chunks (Prefix, then JsonA).  Pieces carry no   *)
(* surrounding white space, so trim() has nothing to remove.               *)
(***************************************************************************)
Piece(pre, body, content, usage, finish_reason) ==
    [pre |-> pre, body |-> body, content |-> content, usage |-> usage,
     finish_reason |-> finish_reason]

NL      == Piece(FALSE, "\n", "", <<>>, "")
FrameA  == Piece(TRUE, "object", "a", <<5, 7>>, "")
FrameB  == Piece(TRUE, "object", "b", <<0, 0>>, "")
FrameF  == Piece(TRUE, "object", "", <<>>, "length")
FrameN  == Piece(TRUE, "null", "", <<>>, "")
Done    == Piece(TRUE, "[DONE]", "", <<>>, "")
Broken  == Piece(TRUE, "text", "", <<>>, "")
Comment == Piece(FALSE, "text", "", <<>>, "")
Prefix  == Piece(TRUE, "", "", <<>>, "")
JsonA   == Piece(FALSE, "object", "a", <<5, 7>>, "")

Pieces == {NL, FrameA, FrameB, FrameF, FrameN, Done, Broken, Comment, Prefix,
           JsonA}

\* every chunk of at most n pieces a read can resolve with
Chunks(n) == UNION {[1..j -> Pieces] : j \in 1..n}

(***************************************************************************)
(* Helpers on sequences.                                                   *)
(***************************************************************************)
Last(s) == s[Len(s)]
Front(s) == SubSeq(s, 1, Len(s) - 1)

\* String.prototype.split('\n'): the runs between newlines, always at least one
RECURSIVE split(_)
split(s) ==
    IF s = <<>> THEN << <<>> >>
    ELSE LET rest == split(Tail(s))
         IN  IF Head(s) = NL
             THEN << <<>> >> \o rest
             ELSE << <<Head(s)>> \o rest[1] >> \o Tail(rest)

\* line.startsWith('data: ')
startsWith(line) == line # <<>> /\ line[1].pre

\* line.slice(6): the line without the six characters of its prefix
slice6(line) ==
    IF line[1].body = "" THEN Tail(line)
    ELSE <<[line[1] EXCEPT !.pre = FALSE]>> \o Tail(line)

\* jsonStr === '[DONE]'
isDone(jsonStr) ==
    Len(jsonStr) = 1 /\ ~jsonStr[1].pre /\ jsonStr[1].body = "[DONE]"

\* JSON.parse(jsonStr) returns a value: jsonStr is exactly one complete JSON
\* value.  The empty string, text that is no JSON, and a complete value
\* followed by further characters are SyntaxErrors.
parses(jsonStr) ==
    Len(jsonStr) = 1 /\ ~jsonStr[1].pre /\ jsonStr[1].body \in {"object", "null"}

\* x || y on numbers: 0 (and a missing field) is falsy
OrElse(x, y) == IF x = 0 THEN y ELSE x

(***************************************************************************)
(* mapFinishReason: mapping[reason] || 'end_turn'.  mapping is an object   *)
(* literal, so a lookup also finds what Object.prototype supplies.         *)
(***************************************************************************)
ProtoKeys == {"constructor", "toString", "valueOf", "hasOwnProperty",
              "isPrototypeOf", "propertyIsEnumerable", "toLocaleString",
              "__proto__"}

mapFinishReason(reason) ==
    CASE reason = "stop"           -> "end_turn"
      [] reason = "length"         -> "max_tokens"
      [] reason = "tool_calls"     -> "tool_use"
      [] reason = "content_filter" -> "stop_sequence"
      [] reason = "function_call"  -> "tool_use"
      [] reason \in ProtoKeys      -> "[inherited]"
      [] OTHER                     -> "end_turn"

(***************************************************************************)
(* The events of the caller's protocol.                                    *)
(***************************************************************************)
Event(type, index, text, stop_reason, output_tokens) ==
    [type |-> type, index |-> index, text |-> text,
     stop_reason |-> stop_reason, output_tokens |-> output_tokens]

MessageStart      == Event("message_start", 0, "", "", 0)
ContentBlockStart == Event("content_block_start", 0, "", "", 0)
ContentBlockDelta(text) == Event("content_block_delta", 0, text, "", 0)
ContentBlockStop  == Event("content_block_stop", 0, "", "", 0)
MessageDelta(stop_reason, output_tokens) ==
    Event("message_delta", 0, "", stop_reason, output_tokens)
MessageStop       == Event("message_stop", 0, "", "", 0)

\* sendEvent: controller.enqueue of the encoded event
sendEvent(st, ev) == [st EXCEPT !.out = Append(@, ev)]

(***************************************************************************)
(* One conversion: the closure variables of transformOpenRouterToAnthropic *)
(* (buffer, inputTokens, outputTokens, sentStart), the output controller   *)
(* (out: the events enqueued so far, ctrl: the stream's state, calls: the  *)
(* controller's error and close calls), the loop's position pc, and the    *)
(* history of the source: received, the pieces read so far, cut, whether   *)
(* some chunk ended inside a line, and source, how the source ended.       *)
(***************************************************************************)
NewConversion ==
    [buffer |-> <<>>, inputTokens |-> 0, outputTokens |-> 0,
     sentStart |-> FALSE, out |-> <<>>, ctrl |-> "readable", calls |-> <<>>,
     pc |-> "reading", received |-> <<>>, cut |-> FALSE, source |-> "open"]

\* emitStart that forgets to set the one-shot flag
emitStart_FlagNotSet(st) ==
    IF st.sentStart THEN st
    ELSE sendEvent(sendEvent(st, MessageStart), ContentBlockStart)

\* if (!sentStart) { message_start; content_block_start; sentStart = true }
emitStart(st) ==
    IF st.sentStart THEN st
    ELSE [sendEvent(sendEvent(st, MessageStart), ContentBlockStart)
            EXCEPT !.sentStart = TRUE]

\* if (delta?.content) content_block_delta
emitDelta(st, chunk) ==
    IF chunk.content # "" THEN sendEvent(st, ContentBlockDelta(chunk.content))
    ELSE st

\* if (chunk.usage) { inputTokens = prompt_tokens || inputTokens; ... }
updateUsage(st, chunk) ==
    IF chunk.usage # <<>>
    THEN [st EXCEPT !.inputTokens = OrElse(chunk.usage[1], @),
                    !.outputTokens = OrElse(chunk.usage[2], @)]
    ELSE st

\* if (finish_reason) { content_block_stop; message_delta; message_stop }
emitFinish(st, chunk) ==
    IF chunk.finish_reason # ""
    THEN sendEvent(
           sendEvent(
             sendEvent(st, ContentBlockStop),
             MessageDelta(mapFinishReason(chunk.finish_reason), st.outputTokens)),
           MessageStop)
    ELSE st

\* the body of the inner try for a parsed chunk.  For the value null the first
\* property access (chunk.model, or chunk.choices once sentStart is set)
\* throws a TypeError before anything is sent; the catch swallows it.
handleChunk(st, chunk) ==
    IF chunk.body = "null" THEN st
    ELSE emitFinish(updateUsage(emitDelta(emitStart(st), chunk), chunk), chunk)

\* handleLine that sends the start events before it parses the line
handleLine_StartBeforeParse(st, line) ==
    IF ~startsWith(line) THEN st
    ELSE LET jsonStr == slice6(line)
         IN  IF isDone(jsonStr) THEN st
             ELSE IF ~parses(jsonStr) THEN emitStart(st)
             ELSE handleChunk(st, jsonStr[1])

\* one iteration of for (const line of lines)
handleLine(st, line) ==
    IF ~startsWith(line) THEN st
    ELSE LET jsonStr == slice6(line)
         IN  IF isDone(jsonStr) THEN st
             ELSE IF ~parses(jsonStr) THEN st
             ELSE handleChunk(st, jsonStr[1])

RECURSIVE handleLines(_, _)
handleLines(st, lines) ==
    IF lines = <<>> THEN st
    ELSE handleLines(handleLine(st, Head(lines)), Tail(lines))

\* carryOver that drops the unfinished fragment
carryOver_Dropped(lines) == <<>>

\* buffer after: buffer = lines.pop() || ''
carryOver(lines) == Last(lines)

\* onChunk that also handles the fragment after the last newline at once
onChunk_EagerFragment(st, value) ==
    LET lines == split(st.buffer \o value)
    IN  [handleLines(st, lines) EXCEPT !.buffer = carryOver(lines)]

\* one turn of the while loop for a read that resolved with a value
onChunk(st, value) ==
    LET lines == split(st.buffer \o value)
    IN  [handleLines(st, Front(lines)) EXCEPT !.buffer = carryOver(lines)]

\* controller.close(): closes a readable stream, throws on any other
controllerClose(st) ==
    [st EXCEPT !.ctrl = IF @ = "readable" THEN "closed" ELSE @,
               !.calls = Append(@, "close")]

\* controller.error(e): errors a readable stream
controllerError(st) ==
    [st EXCEPT !.ctrl = IF @ = "readable" THEN "errored" ELSE @,
               !.calls = Append(@, "error")]

\* onDone without the finally block
onDone_NotClosing(st) == [st EXCEPT !.pc = "done", !.source = "closed"]

\* { done: true }: break, then finally { controller.close() }
onDone(st) == [controllerClose(st) EXCEPT !.pc = "done", !.source = "closed"]

\* reader.read() rejects: catch { controller.error(error) }, then
\* finally { controller.close() }
onReadError(st) ==
    [controllerClose(controllerError(st)) EXCEPT !.pc = "done", !.source = "failed"]

(***************************************************************************)
(* Actions of a conversion.                                                *)
(***************************************************************************)
\* the pieces the sources may still deliver: MaxInput for a conversion that
\* runs alone, MaxInterleaved for all the conversions that run together
RECURSIVE receivedBy(_)
receivedBy(cs) ==
    IF cs = {} THEN 0
    ELSE LET c == CHOOSE x \in cs : TRUE
         IN  Len(conv[c].received) + receivedBy(cs \ {c})
remaining ==
    IF Cardinality(DOMAIN conv) = 1 THEN MaxInput - receivedBy(DOMAIN conv)
    ELSE MaxInterleaved - receivedBy(DOMAIN conv)

\* a read whose carry-over buffer is the one of the first conversion
ReadChunk_SharedBuffer(c) ==
    /\ conv[c].pc = "reading"
    /\ remaining > 0
    /\ \E value \in Chunks(remaining) :
          LET st == onChunk([conv[c] EXCEPT !.buffer = conv[1].buffer], value)
          IN  conv' = [conv EXCEPT
                         ![1] = [@ EXCEPT !.buffer = st.buffer],
                         ![c] = [st EXCEPT !.received = @ \o value,
                                           !.cut = @ \/ Last(value) # NL]]
    /\ UNCHANGED <<config, req, detected, augmentation, conversion, response,
                   handling>>

ReadChunk(c) ==
    /\ conv[c].pc = "reading"
    /\ remaining > 0
    /\ \E value \in Chunks(remaining) :
          conv' = [conv EXCEPT ![c] =
                     [onChunk(@, value) EXCEPT !.received = @ \o value,
                                               !.cut = @ \/ Last(value) # NL]]
    /\ UNCHANGED <<config, req, detected, augmentation, conversion, response,
                   handling>>

ReadDone(c) ==
    /\ conv[c].pc = "reading"
    /\ conv' = [conv EXCEPT ![c] = onDone(@)]
    /\ UNCHANGED <<config, req, detected, augmentation, conversion, response,
                   handling>>

ReadError(c) ==
    /\ conv[c].pc = "reading"
    /\ conv' = [conv EXCEPT ![c] = onReadError(@)]
    /\ UNCHANGED <<config, req, detected, augmentation, conversion, response,
                   handling>>

(***************************************************************************)
(* The detector.  A header or field name is a sequence of characters, so   *)
(* that toLowerCase is computed and not assumed; a dotted path is a        *)
(* sequence of keys and "." separators.  A JSON value is a record of its   *)
(* typeof tag t, its string form s (what String(value) returns) and, for   *)
(* an object, its own entries <<key, value>>.                              *)
(***************************************************************************)
ToLower(ch) ==
    CASE ch = "X" -> "x"
      [] ch = "A" -> "a"
      [] OTHER    -> ch

toLowerCase(name) == [i \in DOMAIN name |-> ToLower(name[i])]

HeaderNames  == {<<"x", "a">>, <<"X", "a">>, <<"x", "b">>}
HeaderValues == {"claude-code", "Claude-Code"}

\* Object.entries(headers): the headers in insertion order, keys distinct
RECURSIVE HeaderMaps(_)
HeaderMaps(n) ==
    IF n = 0 THEN {<<>>}
    ELSE LET shorter == HeaderMaps(n - 1)
         IN  shorter \cup
             {Append(h, <<k, v>>) :
                 h \in {m \in shorter : Len(m) = n - 1},
                 k \in HeaderNames, v \in HeaderValues}

distinctKeys(h) == \A i, j \in DOMAIN h : i # j => h[i][1] # h[j][1]

Json(t, s, entries) == [t |-> t, s |-> s, entries |-> entries]

Undefined    == Json("undefined", "undefined", <<>>)
JsonNull     == Json("null", "null", <<>>)
JsonString(s) == Json("string", s, <<>>)
JsonZero     == Json("number", "0", <<>>)
JsonObject(entries) == Json("object", "[object Object]", entries)
Inherited    == Json("function", "function () { [native code] }", <<>>)

Key(name) == <<name>>

Metadatas ==
    {Undefined,
     JsonObject(<< <<Key("agent"), JsonString("claude-code")>> >>),
     JsonObject(<< <<Key("agent"), JsonZero>> >>),
     JsonObject(<< <<Key("agent"), JsonNull>> >>),
     JsonObject(<< <<Key("source"),
                     JsonObject(<< <<Key("agent"), JsonString("claude-code")>> >>)>> >>),
     JsonObject(<< <<Key("source"), JsonString("cli")>> >>)}

MetadataFields ==
    {<<>>, <<"agent">>, <<"source", ".", "agent">>, <<"constructor">>}

MetadataValues == {"", "claude-code", "0"}

\* path.split('.')
RECURSIVE splitPath(_)
splitPath(path) ==
    IF path = <<>> THEN << <<>> >>
    ELSE LET rest == splitPath(Tail(path))
         IN  IF Head(path) = "."
             THEN << <<>> >> \o rest
             ELSE << <<Head(path)>> \o rest[1] >> \o Tail(rest)

\* current[key] on an object: an own entry, else what Object.prototype
\* supplies, else undefined
getProperty(obj, key) ==
    LET own == SelectSeq(obj.entries, LAMBDA e : e[1] = key)
    IN  IF own # <<>> THEN own[1][2]
        ELSE IF Len(key) = 1 /\ key[1] \in ProtoKeys THEN Inherited
        ELSE Undefined

RECURSIVE getNestedValueFrom(_, _)
getNestedValueFrom(current, keys) ==
    IF keys = <<>> THEN current
    ELSE IF current.t \in {"null", "undefined"} THEN Undefined
    ELSE IF current.t # "object" THEN Undefined
    ELSE getNestedValueFrom(getProperty(current, Head(keys)), Tail(keys))

getNestedValue(obj, path) == getNestedValueFrom(obj, splitPath(path))

\* the for loop of checkHeader: the first entry whose key matches decides
RECURSIVE firstMatch(_, _, _)
firstMatch(entries, headerName, header_value) ==
    IF entries = <<>> THEN FALSE
    ELSE IF toLowerCase(Head(entries)[1]) = headerName
         THEN IF header_value # "" THEN Head(entries)[2] = header_value
              ELSE TRUE
    ELSE firstMatch(Tail(entries), headerName, header_value)

checkHeader(r, detection) ==
    IF detection.header_field = <<>> THEN FALSE
    ELSE firstMatch(r.headers, toLowerCase(detection.header_field),
                    detection.header_value)

checkMetadata(r, detection) ==
    IF detection.metadata_field = <<>> THEN FALSE
    ELSE IF r.body.metadata.t # "object" THEN FALSE
    ELSE LET fieldValue ==
                 getNestedValue(r.body.metadata, detection.metadata_field)
         IN  IF fieldValue.t = "undefined" THEN FALSE
             ELSE IF detection.metadata_value # ""
                  THEN fieldValue.s = detection.metadata_value
             ELSE TRUE

\* isClaudeCodeRequest that lets a configured header criterion decide alone
isClaudeCodeRequest_HeaderDecides(cfg, r) ==
    IF ~cfg.enabled
    THEN [pc |-> "done", result |-> FALSE, header |-> "not asked",
          metadata |-> "not asked"]
    ELSE IF checkHeader(r, cfg.detection)
    THEN [pc |-> "done", result |-> TRUE, header |-> "true",
          metadata |-> "not asked"]
    ELSE IF cfg.detection.header_field # <<>>
    THEN [pc |-> "done", result |-> FALSE, header |-> "false",
          metadata |-> "not asked"]
    ELSE IF checkMetadata(r, cfg.detection)
    THEN [pc |-> "done", result |-> TRUE, header |-> "false",
          metadata |-> "true"]
    ELSE [pc |-> "done", result |-> FALSE, header |-> "false",
          metadata |-> "false"]

\* isClaudeCodeRequest, with what each criterion returned when it was asked
isClaudeCodeRequest(cfg, r) ==
    IF ~cfg.enabled
    THEN [pc |-> "done", result |-> FALSE, header |-> "not asked",
          metadata |-> "not asked"]
    ELSE IF checkHeader(r, cfg.detection)
    THEN [pc |-> "done", result |-> TRUE, header |-> "true",
          metadata |-> "not asked"]
    ELSE IF checkMetadata(r, cfg.detection)
    THEN [pc |-> "done", result |-> TRUE, header |-> "false",
          metadata |-> "true"]
    ELSE [pc |-> "done", result |-> FALSE, header |-> "false",
          metadata |-> "false"]

Detect ==
    /\ detected.pc = "call"
    /\ detected' = isClaudeCodeRequest(config, req)
    /\ UNCHANGED <<conv, config, req, augmentation, conversion, response,
                   handling>>

(***************************************************************************)
(* The augmenter (augmenter.ts).  A text is the sequence of its pieces, so *)
(* that joining and wrapping show in the result.                           *)
(***************************************************************************)
MaxMessages == 3
MaxBlocks == 2

\* JavaScript's truthiness, Array.isArray and typeof x === 'object'
truthy(v) ==
    ~ \/ v.t \in {"undefined", "null"}
      \/ v.t = "number" /\ v.s = "0"
      \/ v.t = "string" /\ v.s = ""
      \/ v.t = "boolean" /\ v.s = "false"
isArray(v) == v.t = "array"
isObjectType(v) == v.t \in {"object", "array", "null"}

JsonArray(items) == Json("array", "", items)

\* Array.prototype.join over texts
RECURSIVE join(_, _)
join(parts, separator) ==
    IF parts = <<>> THEN <<>>
    ELSE IF Len(parts) = 1 THEN parts[1]
    ELSE parts[1] \o <<separator>> \o join(Tail(parts), separator)

\* JSON.stringify(value, null, 2) of an object of scalars, and JSON.parse
stringifyScalar(value) ==
    IF value.t = "string" THEN <<"\"", value.s, "\"">> ELSE <<value.s>>
RECURSIVE stringifyEntries(_)
stringifyEntries(entries) ==
    IF entries = <<>> THEN <<>>
    ELSE <<"\n  ", "\"", entries[1][1][1], "\"", ": ">>
         \o stringifyScalar(entries[1][2])
         \o (IF Len(entries) = 1 THEN <<"\n">> ELSE <<",">>)
         \o stringifyEntries(Tail(entries))
stringify(value) ==
    IF value.t = "object"
    THEN IF value.entries = <<>> THEN <<"{}">>
         ELSE <<"{">> \o stringifyEntries(value.entries) \o <<"}">>
    ELSE IF value.t = "array"
    THEN IF value.entries = <<>> THEN <<"[]">>
         ELSE <<"[">> \o join([i \in DOMAIN value.entries |->
                                  <<"\n  ">>
                                  \o stringifyScalar(value.entries[i])], ",")
              \o <<"\n", "]">>
    ELSE stringifyScalar(value)
RECURSIVE parseEntries(_)
parseEntries(text) ==
    IF Len(text) < 7 THEN <<>>
    ELSE IF text[6] = "\""
    THEN << <<Key(text[3]), JsonString(text[7])>> >>
         \o parseEntries(SubSeq(text, 10, Len(text)))
    ELSE << <<Key(text[3]), Json("number", text[6], <<>>)>> >>
         \o parseEntries(SubSeq(text, 8, Len(text)))
RECURSIVE parseItems(_)
parseItems(text) ==
    IF Len(text) < 3 THEN <<>>
    ELSE IF text[2] = "\""
    THEN <<JsonString(text[3])>> \o parseItems(SubSeq(text, 6, Len(text)))
    ELSE <<Json("number", text[2], <<>>)>>
         \o parseItems(SubSeq(text, 4, Len(text)))
parse(text) ==
    IF text = <<"{}">> THEN JsonObject(<<>>)
    ELSE IF text = <<"[]">> THEN JsonArray(<<>>)
    ELSE IF Len(text) >= 2 /\ Head(text) = "{" /\ Last(text) = "}"
    THEN JsonObject(parseEntries(SubSeq(text, 2, Len(text) - 1)))
    ELSE IF Len(text) >= 2 /\ Head(text) = "[" /\ Last(text) = "]"
    THEN JsonArray(parseItems(SubSeq(text, 2, Len(text) - 1)
                              \o <<",">>))
    ELSE Undefined

\* content blocks, inbound and outbound
NoSource == [type |-> "", media_type |-> "", data |-> "", url |-> ""]
Block(type) ==
    [type |-> type, text |-> <<>>, source |-> NoSource, image_url |-> <<>>,
     id |-> "", name |-> "", input |-> "", tool_use_id |-> "",
     content |-> ""]
TextBlock(text) == [Block("text") EXCEPT !.text = text]
ImageBlock(source) == [Block("image") EXCEPT !.source = source]
Base64Source ==
    [NoSource EXCEPT !.type = "base64", !.media_type = "image/png",
                     !.data = "iVBOR"]
UrlSource == [NoSource EXCEPT !.type = "url", !.url = "https://img"]
FileSource == [NoSource EXCEPT !.type = "file"]
ToolUseBlock ==
    [Block("tool_use") EXCEPT !.id = "tu1", !.name = "read", !.input = "{}"]
ToolResultBlock ==
    [Block("tool_result") EXCEPT !.tool_use_id = "tu1", !.content = "ok"]

\* message contents: a string, an array of blocks, or another value
StringContent(text) == [kind |-> "string", text |-> text, blocks |-> <<>>]
ArrayContent(blocks) == [kind |-> "array", text |-> <<>>, blocks |-> blocks]
OtherContent(s) == [kind |-> "other", text |-> <<s>>, blocks |-> <<>>]
Message(role, content) == [role |-> role, content |-> content]

\* convertContent's loop body: what one inbound block pushes
convertBlock(block) ==
    IF block.type = "text"
    THEN << [Block("text") EXCEPT !.text = block.text] >>
    ELSE IF block.type = "image"
    THEN IF block.source.type = "base64"
         THEN << [Block("image_url") EXCEPT
                    !.image_url = <<"data:", block.source.media_type,
                                    ";base64,", block.source.data>>] >>
         ELSE IF block.source.type = "url"
         THEN << [Block("image_url") EXCEPT
                    !.image_url = <<block.source.url>>] >>
         ELSE <<>>
    ELSE IF block.type = "tool_use"
    THEN << [Block("tool_use") EXCEPT !.id = block.id, !.name = block.name,
                                      !.input = block.input] >>
    ELSE IF block.type = "tool_result"
    THEN << [Block("tool_result") EXCEPT
                !.tool_use_id = block.tool_use_id,
                !.content = block.content] >>
    ELSE <<block>>

RECURSIVE convertBlocks(_)
convertBlocks(blocks) ==
    IF blocks = <<>> THEN <<>>
    ELSE convertBlock(Head(blocks)) \o convertBlocks(Tail(blocks))

convertContent(content) ==
    IF content.kind = "string" THEN content
    ELSE IF content.kind # "array" THEN StringContent(content.text)
    ELSE LET converted == convertBlocks(content.blocks)
         IN  IF Len(converted) = 1 /\ converted[1].type = "text"
             THEN StringContent(converted[1].text)
             ELSE ArrayContent(converted)

\* convertMessages that handles the inbound list from its end
RECURSIVE convertMessages_Reversed(_)
convertMessages_Reversed(messages) ==
    IF messages = <<>> THEN <<>>
    ELSE convertMessages_Reversed(Tail(messages))
         \o (IF Head(messages).role = "system" THEN <<>>
             ELSE <<Message(Head(messages).role,
                            convertContent(Head(messages).content))>>)

RECURSIVE convertMessages(_)
convertMessages(messages) ==
    IF messages = <<>> THEN <<>>
    ELSE (IF Head(messages).role = "system" THEN <<>>
          ELSE <<Message(Head(messages).role,
                         convertContent(Head(messages).content))>>)
         \o convertMessages(Tail(messages))

\* tools
Tool(type, name) ==
    [type |-> type, name |-> name, description |-> "d",
     input_schema |-> "schema",
     function |-> [name |-> "", description |-> "", parameters |-> ""]]
convertTools(tools) ==
    [i \in DOMAIN tools |->
        IF tools[i].type = "function" THEN tools[i]
        ELSE [type |-> "function", name |-> "", description |-> "",
              input_schema |-> "",
              function |-> [name |-> tools[i].name,
                            description |-> tools[i].description,
                            parameters |-> tools[i].input_schema]]]

\* AugmentResult
Success(augmented) ==
    [success |-> TRUE, augmented |-> augmented, error |-> <<>>,
     errorCode |-> 0]
Failure(error, errorCode) ==
    [success |-> FALSE, augmented |-> FALSE, error |-> error,
     errorCode |-> errorCode]

validateConfig(cfg) ==
    IF cfg.openrouter_endpoint = ""
    THEN Failure(<<"Missing required parameter: ", "openrouter_endpoint",
                   "">>, 400)
    ELSE IF cfg.openrouter_auth = ""
    THEN Failure(<<"Missing required parameter: ", "openrouter_auth", "">>,
                 400)
    ELSE IF truthy(cfg.additional_instructions)
            /\ ~isArray(cfg.additional_instructions)
    THEN Failure(<<"Invalid parameter: ", "additional_instructions",
                   " must be an array">>, 400)
    ELSE IF truthy(cfg.extra_context) /\ ~isObjectType(cfg.extra_context)
    THEN Failure(<<"Invalid parameter: ", "extra_context",
                   " must be an object">>, 400)
    ELSE Success(FALSE)

\* buildSystemPrompt that forwards the first inbound segment only
buildSystemPrompt_FirstSegment(cfg, originalSystem) ==
    LET texts == IF isArray(originalSystem)
                 THEN SelectSeq(originalSystem.entries,
                                LAMBDA item : item.type = "text"
                                              /\ item.text # <<>>)
                 ELSE <<>>
    IN  IF cfg.modified_system_prompt # <<>>
        THEN cfg.modified_system_prompt
        ELSE IF texts = <<>> THEN <<>> ELSE texts[1].text

buildSystemPrompt(cfg, originalSystem) ==
    LET texts == IF truthy(originalSystem) /\ isArray(originalSystem)
                 THEN SelectSeq(originalSystem.entries,
                                LAMBDA item : item.type = "text"
                                              /\ item.text # <<>>)
                 ELSE <<>>
        parts == IF cfg.modified_system_prompt # <<>>
                 THEN <<cfg.modified_system_prompt>>
                 ELSE [i \in DOMAIN texts |-> texts[i].text]
    IN  join(parts, "\n\n")

additionalFields ==
    {"temperature", "top_p", "top_k", "frequency_penalty",
     "presence_penalty", "stop"}

\* the request bodies: every property is there, "undefined" when unset
EmptyBody ==
    [keys |-> {}, model |-> "undefined", messages |-> <<>>,
     max_tokens |-> "undefined", stream |-> "undefined", tools |-> <<>>,
     temperature |-> "undefined", top_p |-> "undefined",
     top_k |-> "undefined", frequency_penalty |-> "undefined",
     presence_penalty |-> "undefined", stop |-> "undefined"]

systemMessage(text) == Message("system", StringContent(text))
\* contextMessage that leaves the closing marker out
contextMessage_Unclosed(extra_context) ==
    systemMessage(<<"<context>\n">> \o stringify(extra_context))

contextMessage(extra_context) ==
    systemMessage(<<"<context>\n">> \o stringify(extra_context)
                  \o <<"\n</context>">>)

\* the messages of augmentRequest with the context message pushed first
augmentedMessages_ContextFirst(cfg, originalBody) ==
    LET systemPrompt == buildSystemPrompt(cfg, originalBody.system)
    IN  (IF truthy(cfg.extra_context)
         THEN <<contextMessage(cfg.extra_context)>> ELSE <<>>)
        \o (IF systemPrompt # <<>> THEN <<systemMessage(systemPrompt)>>
            ELSE <<>>)
        \o (IF truthy(cfg.additional_instructions)
            THEN [i \in DOMAIN cfg.additional_instructions.entries |->
                    systemMessage(cfg.additional_instructions.entries[i])]
            ELSE <<>>)
        \o convertMessages(originalBody.messages)

augmentedMessages(cfg, originalBody) ==
    LET systemPrompt == buildSystemPrompt(cfg, originalBody.system)
    IN  (IF systemPrompt # <<>> THEN <<systemMessage(systemPrompt)>>
         ELSE <<>>)
        \o (IF truthy(cfg.additional_instructions)
               /\ Len(cfg.additional_instructions.entries) > 0
            THEN [i \in DOMAIN cfg.additional_instructions.entries |->
                    systemMessage(cfg.additional_instructions.entries[i])]
            ELSE <<>>)
        \o (IF truthy(cfg.extra_context)
            THEN <<contextMessage(cfg.extra_context)>> ELSE <<>>)
        \o convertMessages(originalBody.messages)

augmentRequest(cfg, r) ==
    LET validation == validateConfig(cfg)
        originalBody == r.body
        convertTools_ == Len(originalBody.tools) > 0
    IN  IF ~validation.success
        THEN [pc |-> "done", augmentedBody |-> EmptyBody,
              result |-> validation]
        ELSE [pc |-> "done",
              augmentedBody |->
                [f \in DOMAIN EmptyBody |->
                    IF f = "keys"
                    THEN {"model", "messages", "max_tokens", "stream"}
                         \cup (IF convertTools_ THEN {"tools"} ELSE {})
                         \cup {a \in additionalFields :
                                  originalBody[a] # "undefined"}
                    ELSE IF f = "messages"
                    THEN augmentedMessages(cfg, originalBody)
                    ELSE IF f = "tools"
                    THEN IF convertTools_
                         THEN convertTools(originalBody.tools) ELSE <<>>
                    ELSE originalBody[f]],
              result |-> Success(TRUE)]

NoBody ==
    [metadata |-> Undefined, system |-> Undefined, messages |-> <<>>,
     model |-> "undefined", max_tokens |-> "undefined",
     stream |-> "undefined", tools |-> <<>>, temperature |-> "undefined",
     top_p |-> "undefined", top_k |-> "undefined",
     frequency_penalty |-> "undefined", presence_penalty |-> "undefined",
     stop |-> "undefined"]
NoRequest == [headers |-> <<>>, body |-> NoBody]
NoDetection ==
    [header_field |-> <<>>, header_value |-> "", metadata_field |-> <<>>,
     metadata_value |-> ""]
NoConfig ==
    [enabled |-> FALSE, detection |-> NoDetection,
     openrouter_endpoint |-> "", openrouter_auth |-> "",
     modified_system_prompt |-> <<>>,
     additional_instructions |-> Undefined, extra_context |-> Undefined]
NotDetecting ==
    [pc |-> "idle", result |-> FALSE, header |-> "not asked",
     metadata |-> "not asked"]
NotAugmenting ==
    [pc |-> "idle", augmentedBody |-> EmptyBody, result |-> Success(FALSE)]
\* pushed: the local array 'converted' as the loop left it, before the
\* final choice between the bare text and the array
NotConverting ==
    [pc |-> "idle", content |-> StringContent(<<>>), pushed |-> <<>>,
     converted |-> StringContent(<<>>)]

\* OpenRouter's response body as response.json() delivers it: an object ("" and
\* <<>> stand for an absent property) or null; and
\* convertOpenRouterResponseToAnthropic
Choice(content, finish_reason) ==
    [message |-> [content |-> content], finish_reason |-> finish_reason]
Data(id, model, choices, usage) ==
    [t |-> "object", id |-> id, model |-> model, choices |-> choices,
     usage |-> usage]
NullData == [Data("", "", <<>>, <<>>) EXCEPT !.t = "null"]
\* data.choices of null throws a TypeError
convertThrows(data) == data.t = "null"
orElse(x, y) == IF x = "" THEN y ELSE x
convertOpenRouterResponseToAnthropic(data) ==
    LET hasChoice == data.choices # <<>>
        choice == data.choices[1]
    IN  [id |-> orElse(data.id, "msg_<now>"),
         type |-> "message",
         role |-> "assistant",
         content |-> <<[type |-> "text",
                        text |-> IF hasChoice THEN choice.message.content
                                 ELSE ""]>>,
         model |-> orElse(data.model, "unknown"),
         stop_reason |-> mapFinishReason(IF hasChoice
                                         THEN choice.finish_reason ELSE ""),
         stop_sequence |-> "null",
         usage |-> [input_tokens |-> IF data.usage = <<>> THEN 0
                                     ELSE OrElse(data.usage[1], 0),
                    output_tokens |-> IF data.usage = <<>> THEN 0
                                      ELSE OrElse(data.usage[2], 0)]]

NoData == Data("", "", <<>>, <<>>)
NoResponse ==
    [pc |-> "idle", data |-> NoData, threw |-> FALSE,
     converted |-> convertOpenRouterResponseToAnthropic(NoData)]

\* handleNonStreamingResponse converts the body it has read
ConvertResponse ==
    /\ response.pc = "call"
    /\ response' = IF convertThrows(response.data)
                   THEN [response EXCEPT !.pc = "done", !.threw = TRUE]
                   ELSE [response EXCEPT
                           !.pc = "done",
                           !.converted =
                             convertOpenRouterResponseToAnthropic(
                                 response.data)]
    /\ UNCHANGED <<conv, config, req, detected, augmentation, conversion,
                   handling>>

\* augmentRequest is called
Augment ==
    /\ augmentation.pc = "call"
    /\ augmentation' = augmentRequest(config, req)
    /\ UNCHANGED <<conv, config, req, detected, conversion, response,
                   handling>>

\* convertContent is called
ConvertContent ==
    /\ conversion.pc = "call"
    /\ conversion' = [pc |-> "done", content |-> conversion.content,
                      pushed |-> IF conversion.content.kind = "array"
                                 THEN convertBlocks(conversion.content.blocks)
                                 ELSE <<>>,
                      converted |-> convertContent(conversion.content)]
    /\ UNCHANGED <<conv, config, req, detected, augmentation, response,
                   handling>>

(***************************************************************************)
(* The middleware (middleware.ts) and OpenRouterForwarder.forward.  handle *)
(* runs up to the fetch, waits, and goes on when the fetch settles.        *)
(***************************************************************************)
\* what fetch rejects with
FetchError(code, name, message) ==
    [code |-> code, name |-> name, message |-> message]
FetchErrors ==
    {FetchError("ECONNREFUSED", "Error", "connect ECONNREFUSED"),
     FetchError("ENOTFOUND", "Error", "getaddrinfo ENOTFOUND"),
     FetchError("ETIMEDOUT", "Error", "Request timed out"),
     FetchError("", "TypeError", "fetch failed"),
     FetchError("ECONNRESET", "Error", "socket hang up"),
     FetchError("EPIPE", "FetchError", "write EPIPE")}

\* what fetch resolves with: status line, whether there is a body stream,
\* and what response.json() gives: an object (an error body with message
\* and error.message, "" when absent, or a completion), null, or a rejection
\* on text that is not JSON
Response(ok, status, hasBody, json, message, nested, data) ==
    [ok |-> ok, status |-> status, statusText |-> "status text",
     hasBody |-> hasBody, json |-> json, message |-> message,
     nested |-> nested, data |-> data]
Completion == Data("gen-1", "gpt", <<Choice("hi", "stop")>>, <<5, 7>>)
Responses ==
    {Response(FALSE, status, TRUE, "object", message, nested, NoData) :
        status \in {401, 429, 500, 502},
        message \in {"", "Invalid API key"},
        nested \in {"", "Rate limit exceeded"}}
    \cup {Response(FALSE, status, TRUE, json, "", "", NoData) :
            status \in {401, 429, 500, 502}, json \in {"null", "invalid"}}
    \cup {Response(TRUE, 200, TRUE, "object", "", "", data) :
            data \in {Completion, NoData}}
    \cup {Response(TRUE, 200, hasBody, json, "", "", NoData) :
            hasBody \in BOOLEAN, json \in {"null", "invalid"}}

\* ForwardResult
Forwarded ==
    [success |-> TRUE, error |-> <<>>, errorCode |-> 0]
NotForwarded(error, errorCode) ==
    [success |-> FALSE, error |-> error, errorCode |-> errorCode]

\* forward's catch block
onForwardError(error) ==
    IF \/ error.code \in {"ECONNREFUSED", "ENOTFOUND", "ETIMEDOUT"}
       \/ error.name = "TypeError"
    THEN NotForwarded(
            <<"Network error: Unable to reach OpenRouter endpoint - ",
              error.message>>, 502)
    ELSE NotForwarded(<<"Forward error: ", error.message>>, 500)

\* forward after fetch has resolved
onFetchResponse(resp) ==
    IF resp.ok THEN Forwarded
    ELSE IF resp.json = "invalid"
    THEN NotForwarded(<<"HTTP ", ToString(resp.status), ": ",
                        resp.statusText>>, resp.status)
    ELSE IF resp.json = "null"
    THEN onForwardError(
            FetchError("", "TypeError",
                       "Cannot read properties of null (reading 'message')"))
    ELSE IF resp.message # ""
    THEN NotForwarded(<<resp.message>>, resp.status)
    ELSE NotForwarded(<<"OpenRouter error: ", ToString(resp.status)>>,
                      resp.status)

\* the reply object: status 0 and kind "none" until the handler sets them
NoMessage == convertOpenRouterResponseToAnthropic(NoData)
NoReply ==
    [status |-> 0, headers |-> {}, sends |-> 0,
     body |-> [kind |-> "none", type |-> "", message |-> <<>>,
               data |-> NoMessage]]
\* reply.status(code).send({type: 'error', error: {type, message}})
sendError(reply, code, type, message) ==
    [reply EXCEPT !.status = code, !.sends = @ + 1,
                  !.body = [kind |-> "error", type |-> type,
                            message |-> message, data |-> NoMessage]]
eventStreamHeaders == {"Content-Type", "Cache-Control", "Connection"}

\* provider: the response the fetch resolved with
NoProviderResponse == Response(TRUE, 0, FALSE, "invalid", "", "", NoData)
NotHandling ==
    [pc |-> "idle", returned |-> "pending", isStreaming |-> FALSE,
     fetches |-> 0, sent |-> EmptyBody, settled |-> "pending",
     provider |-> NoProviderResponse, forwardResult |-> Forwarded, path |-> "none", reply |-> NoReply]

\* handle up to `await this.forwarder.forward(...)`, fetch called
handleStart(h) ==
    LET augmented == augmentRequest(config, req)
        result == augmented.result
    IN  IF ~config.enabled THEN [h EXCEPT !.pc = "done", !.returned = "false"]
        ELSE IF ~isClaudeCodeRequest(config, req).result
        THEN [h EXCEPT !.pc = "done", !.returned = "false"]
        ELSE IF ~result.success
        THEN [h EXCEPT !.pc = "done", !.returned = "true",
                       !.reply = sendError(@, IF result.errorCode = 0 THEN 400
                                              ELSE result.errorCode,
                                           "invalid_request_error",
                                           result.error)]
        ELSE [h EXCEPT !.pc = "fetching",
                       !.isStreaming = (req.body.stream # "false"),
                       !.fetches = @ + 1,
                       !.sent = augmented.augmentedBody]

\* handle after forward has failed
replyForwardError(h, forwardResult) ==
    [h EXCEPT !.pc = "done", !.returned = "true",
              !.forwardResult = forwardResult,
              !.reply = sendError(@, IF forwardResult.errorCode = 0 THEN 500
                                     ELSE forwardResult.errorCode,
                                  IF forwardResult.errorCode = 502
                                  THEN "api_error"
                                  ELSE "invalid_request_error",
                                  forwardResult.error)]

\* handle that calls forward once more after a failure of the transport
onFetchRejected_Retry(h, error) ==
    [replyForwardError(h, onForwardError(error)) EXCEPT !.fetches = @ + 1,
                                                        !.settled = "rejected"]

\* handle after fetch has rejected
onFetchRejected(h, error) ==
    [replyForwardError(h, onForwardError(error)) EXCEPT
        !.settled = "rejected"]

\* the branch handle takes on a successful forward
responsePath(h) == IF h.isStreaming THEN "streaming" ELSE "non-streaming"

\* handle after fetch has resolved
onFetchResolved(h, resp) ==
    LET forwardResult == onFetchResponse(resp)
        settled == [h EXCEPT !.settled = "resolved", !.provider = resp]
    IN  IF ~forwardResult.success
        THEN replyForwardError(settled, forwardResult)
        ELSE IF responsePath(h) = "streaming"
        THEN \* headers, then handleStreamingResponse, then reply.send
             IF ~resp.hasBody
             THEN [settled EXCEPT
                     !.pc = "done", !.returned = "rejected",
                     !.path = "streaming",
                     !.reply = [@ EXCEPT !.headers = eventStreamHeaders]]
             ELSE [settled EXCEPT
                     !.pc = "done", !.returned = "true",
                     !.path = "streaming",
                     !.reply = [@ EXCEPT !.headers = eventStreamHeaders,
                                         !.sends = @ + 1,
                                         !.body = [kind |-> "stream",
                                                   type |-> "",
                                                   message |-> <<>>,
                                                   data |-> NoMessage]]]
        ELSE \* handleNonStreamingResponse, then reply.send
             IF resp.json = "invalid" \/ ~resp.hasBody
                \/ (resp.json = "null" /\ convertThrows(NullData))
             THEN [settled EXCEPT !.pc = "done", !.returned = "rejected",
                                  !.path = "non-streaming"]
             ELSE [settled EXCEPT
                     !.pc = "done", !.returned = "true",
                     !.path = "non-streaming",
                     !.reply = [@ EXCEPT
                         !.sends = @ + 1,
                         !.body = [kind |-> "message", type |-> "",
                                   message |-> <<>>,
                                   data |->
                                     convertOpenRouterResponseToAnthropic(
                                         resp.data)]]]

\* handle is called
Handle ==
    /\ handling.pc = "call"
    /\ handling' = handleStart(handling)
    /\ UNCHANGED <<conv, config, req, detected, augmentation, conversion,
                   response>>

\* the fetch rejects and handle runs to its end
FetchRejects(error) ==
    /\ handling.pc = "fetching"
    /\ handling' = onFetchRejected(handling, error)
    /\ UNCHANGED <<conv, config, req, detected, augmentation, conversion,
                   response>>

\* the fetch resolves and handle runs to its end; on the streaming path
\* transformOpenRouterToAnthropic starts a conversion of the body
FetchResolves(resp) ==
    /\ handling.pc = "fetching"
    /\ handling' = onFetchResolved(handling, resp)
    /\ conv' = IF handling'.reply.body.kind = "stream"
               THEN Append(conv, NewConversion) ELSE conv
    /\ UNCHANGED <<config, req, detected, augmentation, conversion,
                   response>>

(***************************************************************************)
(* Spec: one streaming conversion fed every provider text of at most       *)
(* MaxInput pieces, cut into chunks in every way, closing or failing at    *)
(* any point.                                                              *)
(***************************************************************************)
Init ==
    /\ conv = [c \in {1} |-> NewConversion]
    /\ config = NoConfig
    /\ req = NoRequest
    /\ detected = NotDetecting
    /\ augmentation = NotAugmenting
    /\ conversion = NotConverting
    /\ response = NoResponse
    /\ handling = NotHandling

Next ==
    \/ \E c \in DOMAIN conv : ReadChunk(c)
    \/ \E c \in DOMAIN conv : ReadDone(c)
    \/ \E c \in DOMAIN conv : ReadError(c)

Spec == Init /\ [][Next]_vars

(***************************************************************************)
(* SpecFair: Spec for a source that closes or fails in the end: the read   *)
(* that settles with done or with a failure is not put off for ever, and   *)
(* the runtime then resumes the loop.                                      *)
(***************************************************************************)
SourceEnds == \E c \in DOMAIN conv : ReadDone(c) \/ ReadError(c)

SpecFair == Init /\ [][Next]_vars /\ WF_vars(SourceEnds)

(***************************************************************************)
(* SpecTwo: two streaming conversions at once, their reads interleaved in  *)
(* every way, fed at most MaxInterleaved pieces together.                  *)
(***************************************************************************)
InitTwo ==
    /\ conv = [c \in {1, 2} |-> NewConversion]
    /\ config = NoConfig
    /\ req = NoRequest
    /\ detected = NotDetecting
    /\ augmentation = NotAugmenting
    /\ conversion = NotConverting
    /\ response = NoResponse
    /\ handling = NotHandling

SpecTwo == InitTwo /\ [][Next]_vars

(***************************************************************************)
(* SpecDetect: isClaudeCodeRequest applied to every configuration and      *)
(* request of the bounded sets.                                            *)
(***************************************************************************)
InitDetect ==
    /\ conv = <<>>
    /\ \E enabled \in BOOLEAN,
          detection \in [header_field : {<<>>} \cup HeaderNames,
                         header_value : {""} \cup HeaderValues,
                         metadata_field : MetadataFields,
                         metadata_value : MetadataValues] :
          config = [NoConfig EXCEPT !.enabled = enabled,
                                    !.detection = detection]
    /\ \E headers \in {h \in HeaderMaps(MaxHeaders) : distinctKeys(h)},
          metadata \in Metadatas :
          req = [headers |-> headers,
                 body |-> [NoBody EXCEPT !.metadata = metadata]]
    /\ detected = [NotDetecting EXCEPT !.pc = "call"]
    /\ augmentation = NotAugmenting
    /\ conversion = NotConverting
    /\ response = NoResponse
    /\ handling = NotHandling

NextDetect == Detect

SpecDetect == InitDetect /\ [][NextDetect]_vars

(***************************************************************************)
(* SpecAugment: augmentRequest applied to every policy and inbound request *)
(* of the bounded sets.                                                    *)
(***************************************************************************)
X  == <<"X">>
Y1 == <<"Y1">>
Y2 == <<"Y2">>
I1 == <<"I1">>
I2 == <<"I2">>

Segment(text) == [type |-> "text", text |-> text]
Systems ==
    {Undefined, JsonArray(<<Segment(Y1)>>),
     JsonArray(<<Segment(Y1), Segment(Y2)>>),
     JsonArray(<<Segment(<<>>), Segment(Y2)>>)}
Instructions ==
    {Undefined, JsonArray(<<>>), JsonArray(<<I1>>), JsonArray(<<I1, I2>>),
     JsonString("not an array"), JsonString("")}
Contexts ==
    {Undefined, JsonObject(<<>>),
     JsonObject(<< <<Key("project"), JsonString("my-app")>>,
                   <<Key("version"), JsonZero>> >>),
     JsonArray(<<JsonString("my-app")>>), JsonString("not an object"),
     JsonZero}
InboundMessages ==
    {Message("user", StringContent(<<"A">>)),
     Message("assistant", StringContent(<<"B">>)),
     Message("system", StringContent(<<"S">>)),
     Message("user", ArrayContent(<<TextBlock(<<"T">>),
                                    ImageBlock(Base64Source)>>))}
RECURSIVE SeqsUpTo(_, _)
SeqsUpTo(S, n) ==
    IF n = 0 THEN {<<>>}
    ELSE SeqsUpTo(S, n - 1)
         \cup {Append(q, x) : q \in {p \in SeqsUpTo(S, n - 1) :
                                        Len(p) = n - 1}, x \in S}
Options ==
    {NoBody,
     [NoBody EXCEPT !.model = "claude", !.max_tokens = "1024",
                    !.stream = "true", !.tools = <<Tool("", "read")>>,
                    !.temperature = "0.2"],
     [NoBody EXCEPT !.model = "claude", !.stream = "false",
                    !.tools = <<Tool("function", "f")>>, !.stop = "END"]}

InitAugment ==
    /\ conv = <<>>
    /\ \E endpoint \in {"", "https://openrouter"}, auth \in {"", "sk-or"},
          prompt \in {<<>>, X}, instructions \in Instructions,
          context \in Contexts :
          config = [NoConfig EXCEPT !.enabled = TRUE,
                                    !.openrouter_endpoint = endpoint,
                                    !.openrouter_auth = auth,
                                    !.modified_system_prompt = prompt,
                                    !.additional_instructions = instructions,
                                    !.extra_context = context]
    /\ \E system \in Systems,
          messages \in SeqsUpTo(InboundMessages, MaxMessages),
          options \in Options :
          req = [headers |-> <<>>,
                 body |-> [options EXCEPT !.system = system,
                                          !.messages = messages]]
    /\ detected = NotDetecting
    /\ augmentation = [NotAugmenting EXCEPT !.pc = "call"]
    /\ conversion = NotConverting
    /\ response = NoResponse
    /\ handling = NotHandling

NextAugment == Augment

SpecAugment == InitAugment /\ [][NextAugment]_vars

(***************************************************************************)
(* SpecContent: convertContent applied to every content of at most         *)
(* MaxBlocks blocks.                                                       *)
(***************************************************************************)
Blocks ==
    {TextBlock(<<"T">>), TextBlock(<<>>), ImageBlock(Base64Source),
     ImageBlock(UrlSource), ImageBlock(FileSource), ImageBlock(NoSource),
     ToolUseBlock, ToolResultBlock, Block("thinking")}
Contents ==
    {StringContent(<<"A">>), StringContent(<<>>), OtherContent("42")}
    \cup {ArrayContent(blocks) : blocks \in SeqsUpTo(Blocks, MaxBlocks)}

InitContent ==
    /\ conv = <<>>
    /\ config = NoConfig
    /\ req = NoRequest
    /\ detected = NotDetecting
    /\ augmentation = NotAugmenting
    /\ \E content \in Contents :
          conversion = [NotConverting EXCEPT !.pc = "call",
                                             !.content = content,
                                             !.converted = content]
    /\ response = NoResponse
    /\ handling = NotHandling

NextContent == ConvertContent

SpecContent == InitContent /\ [][NextContent]_vars

(***************************************************************************)
(* SpecConvert: convertOpenRouterResponseToAnthropic applied to every      *)
(* response body of the bounded sets.                                      *)
(***************************************************************************)
FinishReasons ==
    {"", "stop", "length", "tool_calls", "function_call", "content_filter",
     "eos", "constructor", "toString"}
Datas ==
    {NullData} \cup
    {Data(id, model, choices, usage) :
        id \in {"", "gen-1"}, model \in {"", "gpt"},
        choices \in {<<>>} \cup {<<Choice(content, finish_reason)>> :
                                    content \in {"", "hi"},
                                    finish_reason \in FinishReasons},
        usage \in {<<>>, <<5, 7>>, <<0, 0>>}}

InitConvert ==
    /\ conv = <<>>
    /\ config = NoConfig
    /\ req = NoRequest
    /\ detected = NotDetecting
    /\ augmentation = NotAugmenting
    /\ conversion = NotConverting
    /\ \E data \in Datas :
          response = [NoResponse EXCEPT !.pc = "call", !.data = data]
    /\ handling = NotHandling

NextConvert == ConvertResponse

SpecConvert == InitConvert /\ [][NextConvert]_vars

(***************************************************************************)
(* SpecHandle: handle called with every policy and request of the bounded  *)
(* sets, the fetch settling in every way.                                  *)
(***************************************************************************)
HandledDetections ==
    {NoDetection,
     [NoDetection EXCEPT !.header_field = <<"x", "a">>,
                         !.header_value = "claude-code"],
     [NoDetection EXCEPT !.metadata_field = <<"agent">>],
     [NoDetection EXCEPT !.metadata_field = <<"constructor">>]}

InitHandle ==
    /\ conv = <<>>
    /\ \E enabled \in BOOLEAN, detection \in HandledDetections,
          endpoint \in {"", "https://openrouter"},
          instructions \in {Undefined, JsonArray(<<I1>>),
                            JsonString("not an array")} :
          config = [NoConfig EXCEPT !.enabled = enabled,
                                    !.detection = detection,
                                    !.openrouter_endpoint = endpoint,
                                    !.openrouter_auth = "sk-or",
                                    !.additional_instructions = instructions]
    /\ \E headers \in {<<>>, << <<<<"x", "a">>, "claude-code">> >>},
          metadata \in {Undefined,
                        JsonObject(<< <<Key("agent"),
                                        JsonString("claude-code")>> >>)},
          stream \in {"undefined", "true", "false"} :
          req = [headers |-> headers,
                 body |-> [NoBody EXCEPT
                             !.metadata = metadata,
                             !.model = "claude",
                             !.stream = stream,
                             !.messages =
                                <<Message("user", StringContent(<<"A">>))>>]]
    /\ detected = NotDetecting
    /\ augmentation = NotAugmenting
    /\ conversion = NotConverting
    /\ response = NoResponse
    /\ handling = [NotHandling EXCEPT !.pc = "call"]

NextHandle ==
    \/ Handle
    \/ \E error \in FetchErrors : FetchRejects(error)
    \/ \E resp \in Responses : FetchResolves(resp)

SpecHandle == InitHandle /\ [][NextHandle]_vars

(***************************************************************************)
(* What the claims speak of, computed from the history of the source.      *)
(***************************************************************************)
\* the lines the text holds that a newline has completed
completeLines(text) == Front(split(text))

\* the line is a 'data: ' line whose JSON parses to an object
isFrame(line) ==
    /\ startsWith(line)
    /\ parses(slice6(line))
    /\ slice6(line)[1].body = "object"

\* the frames of the lines, in arrival order
framesOf(lines) ==
    LET fl == SelectSeq(lines, isFrame)
    IN  [i \in 1..Len(fl) |-> slice6(fl[i])[1]]

\* the line is noise: no 'data: ' line, the sentinel, or a malformed frame
isNoise(line) ==
    \/ ~startsWith(line)
    \/ isDone(slice6(line))
    \/ ~parses(slice6(line))

RECURSIVE joinLines(_)
joinLines(lines) ==
    IF lines = <<>> THEN <<>>
    ELSE Head(lines) \o <<NL>> \o joinLines(Tail(lines))

\* the text with its noise lines (and their newlines) removed
withoutNoise(text) ==
    joinLines(SelectSeq(completeLines(text), LAMBDA l : ~isNoise(l)))
        \o Last(split(text))

\* the usage counts of the last frame that carries usage, <<0, 0>> if none does
lastUsage(frames) ==
    LET withUsage == SelectSeq(frames, LAMBDA f : f.usage # <<>>)
    IN  IF withUsage = <<>> THEN <<0, 0>> ELSE Last(withUsage).usage

eventsOfType(out, type) == SelectSeq(out, LAMBDA e : e.type = type)

count(out, type) == Len(eventsOfType(out, type))

\* the positions in out of the events of a type
positions(out, type) == {i \in 1..Len(out) : out[i].type = type}

\* the texts of the content_block_delta events, in emission order
deltaTexts(out) ==
    LET ds == eventsOfType(out, "content_block_delta")
    IN  [i \in 1..Len(ds) |-> ds[i].text]

\* the non-empty incremental texts of the frames, in arrival order
frameTexts(frames) ==
    LET fs == SelectSeq(frames, LAMBDA f : f.content # "")
    IN  [i \in 1..Len(fs) |-> fs[i].content]

(***************************************************************************)
(* Claims on the stream transcoder.                                        *)
(***************************************************************************)

\* C1: a stream in which at least one frame parses and whose source closes
\* normally yields exactly one content_block_stop, one message_delta and one
\* message_stop, in that order, after the single message_start /
\* content_block_start pair, whatever number of frames carry a finish_reason.
C1_OneClosingTriple ==
    \A c \in DOMAIN conv :
        LET st == conv[c]
            o  == st.out
        IN  (st.source = "closed" /\ framesOf(completeLines(st.received)) # <<>>)
            => /\ count(o, "message_start") = 1
               /\ count(o, "content_block_start") = 1
               /\ count(o, "content_block_stop") = 1
               /\ count(o, "message_delta") = 1
               /\ count(o, "message_stop") = 1
               /\ \A i \in positions(o, "content_block_stop") :
                  \A j \in positions(o, "message_delta") :
                  \A k \in positions(o, "message_stop") :
                      /\ 2 < i /\ i < j /\ j < k
                      /\ o[1].type = "message_start"
                      /\ o[2].type = "content_block_start"

\* C2: the events emitted so far are none, or begin with message_start then
\* content_block_start (index 0); each of the two is emitted at most once and
\* nothing is emitted while no frame has parsed.
C2_StartPairFirstOnce ==
    \A c \in DOMAIN conv :
        LET st == conv[c]
            o  == st.out
        IN  /\ \/ o = <<>>
               \/ /\ Len(o) >= 2
                  /\ o[1] = MessageStart
                  /\ o[2] = ContentBlockStart
                  /\ o[2].index = 0
            /\ count(o, "message_start") <= 1
            /\ count(o, "content_block_start") <= 1
            /\ framesOf(completeLines(st.received)) = <<>> => o = <<>>

\* a second frame was handled after the start pair was sent
C2_Witness ==
    \E c \in DOMAIN conv :
        /\ Len(framesOf(completeLines(conv[c].received))) >= 2
        /\ Len(conv[c].out) >= 4
        /\ conv[c].sentStart

\* C3: once message_stop is emitted no further event is emitted: message_stop
\* is the last event of the output.
C3_NothingAfterMessageStop ==
    \A c \in DOMAIN conv :
        \A i \in positions(conv[c].out, "message_stop") : i = Len(conv[c].out)

\* C4: a fragment is processed only once completed: by the newline of a later
\* chunk, or by the normal end of the stream.
C4_FragmentCompletedByEnd ==
    \A c \in DOMAIN conv :
        LET st == conv[c]
            lines == IF st.source = "closed" THEN split(st.received)
                     ELSE completeLines(st.received)
        IN  st.out = handleLines(NewConversion, lines).out

\* C5: the running counters are the counts of the last frame that carries
\* usage (a later value overwrites an earlier one, also a later 0); frames
\* without usage leave them alone.
C5_LaterUsageOverwrites ==
    \A c \in DOMAIN conv :
        LET u == lastUsage(framesOf(completeLines(conv[c].received)))
        IN  /\ conv[c].inputTokens = u[1]
            /\ conv[c].outputTokens = u[2]

\* C6: every message_delta carries the mapped stop reason of its finishing
\* frame and the final output-token count of the stream: the completion count
\* of the last usage-carrying frame, also when that frame arrives after the
\* finishing one.
C6_MessageDeltaFinalCount ==
    \A c \in DOMAIN conv :
        LET st == conv[c]
            frames == framesOf(completeLines(st.received))
            fin == SelectSeq(frames, LAMBDA f : f.finish_reason # "")
            md == eventsOfType(st.out, "message_delta")
        IN  st.source = "closed"
            => /\ Len(md) = Len(fin)
               /\ \A i \in 1..Len(md) :
                    /\ md[i].stop_reason = mapFinishReason(fin[i].finish_reason)
                    /\ md[i].output_tokens = lastUsage(frames)[2]

\* C7: the texts of the content_block_delta events are the non-empty texts of
\* the frames parsed so far, in arrival order: none lost, duplicated,
\* reordered or emitted ahead of its frame.
C7_DeltasAreFrameTexts ==
    \A c \in DOMAIN conv :
        deltaTexts(conv[c].out)
            = frameTexts(framesOf(completeLines(conv[c].received)))

\* the texts of two frames were delivered, in the frames' order
C7_Witness ==
    \E c \in DOMAIN conv :
        /\ conv[c].received = <<FrameB, NL, FrameA, NL>>
        /\ deltaTexts(conv[c].out) = <<"b", "a">>

\* C8: noise lines change nothing: events, start flag and counters are those of
\* the same text without its malformed, non-data and [DONE] lines, and the
\* output is in the error state only after a failed read.
C8_NoiseIsIgnored ==
    \A c \in DOMAIN conv :
        LET st == conv[c]
            clean == onChunk(NewConversion, withoutNoise(st.received))
        IN  /\ st.out = clean.out
            /\ st.sentStart = clean.sentStart
            /\ st.inputTokens = clean.inputTokens
            /\ st.outputTokens = clean.outputTokens
            /\ st.ctrl = "errored" => st.source = "failed"

\* a malformed line was skipped between two frames and the stream went on
C8_Witness ==
    \E c \in DOMAIN conv :
        /\ conv[c].received = <<FrameA, NL, Broken, NL>>
        /\ conv[c].out = <<MessageStart, ContentBlockStart, ContentBlockDelta("a")>>
        /\ conv[c].ctrl = "readable"

\* C9: after a failed read the output is errored, nothing more is emitted and
\* no further operation is performed on the output, close included; what was
\* emitted before stays.
C9_ErrorIsLastOperation ==
    \A c \in DOMAIN conv :
        LET st == conv[c]
        IN  st.source = "failed"
            => /\ st.ctrl = "errored"
               /\ st.calls = <<"error">>
               /\ st.out = handleLines(NewConversion, completeLines(st.received)).out

(***************************************************************************)
(* Claims on the detector.                                                 *)
(***************************************************************************)

\* C10: with the policy enabled and header_field configured, the header
\* criterion is true iff some header's name equals header_field ignoring case
\* and, when header_value is configured, that header's value equals it exactly.
C10_HeaderCriterion ==
    (detected.pc = "done" /\ config.enabled
        /\ config.detection.header_field # <<>>)
    => ((detected.header = "true")
        <=> \E i \in DOMAIN req.headers :
              /\ toLowerCase(req.headers[i][1])
                    = toLowerCase(config.detection.header_field)
              /\ \/ config.detection.header_value = ""
                 \/ req.headers[i][2] = config.detection.header_value)

\* the value a dotted path names when only the objects' own keys count
RECURSIVE ownValue(_, _)
ownValue(current, keys) ==
    IF keys = <<>> THEN current
    ELSE IF current.t # "object" THEN Undefined
    ELSE LET own == SelectSeq(current.entries, LAMBDA e : e[1] = Head(keys))
         IN  IF own = <<>> THEN Undefined
             ELSE ownValue(own[1][2], Tail(keys))

\* C11: the metadata criterion is decided by dotted-path resolution inside
\* body.metadata: a missing metadata object, a missing key or a non-object
\* intermediate gives "not matched"; a resolved value matches iff
\* metadata_value is unset or equals the value's string form.
C11_MetadataCriterion ==
    (detected.pc = "done" /\ detected.metadata # "not asked"
        /\ config.detection.metadata_field # <<>>)
    => LET value == ownValue(req.body.metadata,
                             splitPath(config.detection.metadata_field))
       IN  (detected.metadata = "true")
           <=> /\ req.body.metadata.t = "object"
               /\ value.t # "undefined"
               /\ \/ config.detection.metadata_value = ""
                  \/ value.s = config.detection.metadata_value

\* C12: with the policy enabled the result is the inclusive OR of the two
\* criteria, and it is false whenever neither field is configured.
C12_InclusiveOr ==
    (detected.pc = "done" /\ config.enabled)
    => /\ detected.result
            <=> (checkHeader(req, config.detection)
                    \/ checkMetadata(req, config.detection))
       /\ (config.detection.header_field = <<>>
            /\ config.detection.metadata_field = <<>>) => ~detected.result

\* the configured header is present with another value, the metadata matches
C12_Witness ==
    /\ detected.pc = "done"
    /\ config.detection.header_field # <<>>
    /\ config.detection.header_value # ""
    /\ \E i \in DOMAIN req.headers :
          toLowerCase(req.headers[i][1])
              = toLowerCase(config.detection.header_field)
    /\ detected.header = "false"
    /\ detected.metadata = "true"
    /\ detected.result

\* the policy is invalid, and the field validateConfig is to name
invalidPolicy(cfg) ==
    \/ cfg.openrouter_endpoint = ""
    \/ cfg.openrouter_auth = ""
    \/ cfg.additional_instructions.t \notin {"undefined", "array"}
    \/ cfg.extra_context.t # "undefined" /\ ~isObjectType(cfg.extra_context)
offendingField(cfg) ==
    IF cfg.openrouter_endpoint = "" THEN "openrouter_endpoint"
    ELSE IF cfg.openrouter_auth = "" THEN "openrouter_auth"
    ELSE IF cfg.additional_instructions.t \notin {"undefined", "array"}
    THEN "additional_instructions"
    ELSE "extra_context"

\* C13: an invalid policy (empty endpoint, empty auth token, non-list
\* additional_instructions, non-object extra_context) makes augmentRequest
\* return a failure with status 400 whose message names the offending field,
\* together with an empty outbound request and no translated message.
C13_InvalidPolicyRejected ==
    (augmentation.pc = "done" /\ invalidPolicy(config))
    => /\ ~augmentation.result.success
       /\ augmentation.result.errorCode = 400
       /\ Len(augmentation.result.error) = 3
       /\ augmentation.result.error[2] = offendingField(config)
       /\ augmentation.augmentedBody.keys = {}
       /\ augmentation.augmentedBody.messages = <<>>

\* the texts of the inbound system segments that carry one
segmentTexts(system) ==
    IF system.t # "array" THEN <<>>
    ELSE LET texts == SelectSeq(system.entries,
                                LAMBDA item : item.text # <<>>)
         IN  [i \in DOMAIN texts |-> texts[i].text]
RECURSIVE concat(_)
concat(texts) ==
    IF texts = <<>> THEN <<>> ELSE Head(texts) \o concat(Tail(texts))
\* the pieces of text a content holds, and those of the inbound system text
piecesOf(content) ==
    {content.text[i] : i \in DOMAIN content.text}
    \cup UNION {{content.blocks[b].text[i] :
                    i \in DOMAIN content.blocks[b].text} :
                b \in DOMAIN content.blocks}
systemPieces(body) ==
    LET text == concat(segmentTexts(body.system))
    IN  {text[i] : i \in DOMAIN text}
        \cup UNION {piecesOf(body.messages[m].content) :
                    m \in {k \in DOMAIN body.messages :
                              body.messages[k].role = "system"}}
outbound == augmentation.augmentedBody.messages
succeeded == augmentation.pc = "done" /\ augmentation.result.success

\* a replacement prompt is the first message and shuts the inbound system
\* text out of the outbound request
replacementPromptFirst ==
    config.modified_system_prompt # <<>>
    => /\ outbound # <<>>
       /\ outbound[1] = systemMessage(config.modified_system_prompt)
       /\ \A m \in DOMAIN outbound :
             piecesOf(outbound[m].content) \cap systemPieces(req.body) = {}

\* C14 as stated: a replacement prompt X is the first outbound message and
\* the inbound system text appears nowhere; without one, the first outbound
\* message is a system message whose content is the inbound system text,
\* nothing added, also for several segments.
C14_FirstSystemMessage ==
    succeeded
    => /\ replacementPromptFirst
       /\ (config.modified_system_prompt = <<>>
            /\ segmentTexts(req.body.system) # <<>>)
          => /\ outbound # <<>>
             /\ outbound[1]
                  = systemMessage(concat(segmentTexts(req.body.system)))

\* C14, amended: without a replacement prompt the first outbound message
\* holds the texts of the inbound segments in order, with one blank-line
\* separator between two neighbours (so a single segment is forwarded
\* verbatim).
C14_SegmentsJoinedByBlankLine ==
    succeeded
    => /\ replacementPromptFirst
       /\ (config.modified_system_prompt = <<>>
            /\ segmentTexts(req.body.system) # <<>>)
          => /\ outbound # <<>>
             /\ outbound[1].role = "system"
             /\ outbound[1].content.kind = "string"
             /\ LET text == outbound[1].content.text
                    texts == segmentTexts(req.body.system)
                IN  /\ SelectSeq(text, LAMBDA piece : piece # "\n\n")
                         = concat(texts)
                    /\ Len(text) = Len(concat(texts)) + Len(texts) - 1
                    /\ \A i \in DOMAIN text :
                          text[i] = "\n\n" => /\ 1 < i /\ i < Len(text)
                                              /\ text[i - 1] # "\n\n"

\* two inbound segments without a replacement prompt
C14_Witness ==
    /\ succeeded
    /\ config.modified_system_prompt = <<>>
    /\ Len(segmentTexts(req.body.system)) = 2
    /\ outbound[1] = systemMessage(<<"Y1", "\n\n", "Y2">>)

\* the parts of the layout
promptCount ==
    IF config.modified_system_prompt # <<>>
       \/ segmentTexts(req.body.system) # <<>> THEN 1 ELSE 0
instructions ==
    IF config.additional_instructions.t = "array"
    THEN config.additional_instructions.entries ELSE <<>>
contextConfigured ==
    config.extra_context.t \in {"object", "array"}
contextCount == IF contextConfigured THEN 1 ELSE 0
systemCount == promptCount + Len(instructions) + contextCount
carriesContext(message) ==
    /\ message.content.kind = "string"
    /\ \E i \in DOMAIN message.content.text :
          message.content.text[i] \in {"<context>\n", "\n</context>"}
nonSystem(messages) ==
    SelectSeq(messages, LAMBDA m : m.role # "system")

\* C15: the outbound list is [prompt message if any] ++ [one system message
\* per configured instruction, in order] ++ [context message if configured]
\* ++ [translated conversation]; every system message precedes every
\* user/assistant message.
C15_Layout ==
    succeeded
    => /\ Len(outbound) = systemCount + Len(nonSystem(req.body.messages))
       /\ \A i \in DOMAIN instructions :
             outbound[promptCount + i] = systemMessage(instructions[i])
       /\ contextConfigured
            => carriesContext(outbound[promptCount + Len(instructions) + 1])
       /\ \A i \in DOMAIN outbound :
             (outbound[i].role = "system") <=> (i <= systemCount)
       /\ \A i \in DOMAIN outbound :
             i > systemCount => outbound[i].role \in {"user", "assistant"}

\* prompt, two instructions, context and two conversation messages
C15_Witness ==
    /\ succeeded
    /\ promptCount = 1
    /\ Len(instructions) = 2
    /\ contextConfigured
    /\ Len(nonSystem(req.body.messages)) = 2
    /\ Len(outbound) = 6

\* C16: a configured extra context is carried by exactly one outbound
\* system message, the serialized object between "<context>\n" and
\* "\n</context>", parsing back to the configured object, and that message
\* is the last system message; without extra context no outbound message
\* carries the markers.
C16_ContextMessage ==
    succeeded
    => LET carriers == {i \in DOMAIN outbound : carriesContext(outbound[i])}
       IN  IF contextConfigured
           THEN /\ Cardinality(carriers) = 1
                /\ \A i \in carriers :
                      LET text == outbound[i].content.text
                      IN  /\ outbound[i].role = "system"
                          /\ Len(text) >= 3
                          /\ Head(text) = "<context>\n"
                          /\ Last(text) = "\n</context>"
                          /\ parse(SubSeq(text, 2, Len(text) - 1))
                               = config.extra_context
                          /\ \A j \in DOMAIN outbound :
                                j > i => outbound[j].role # "system"
           ELSE carriers = {}

\* a context of two entries after an instruction, before the conversation
C16_Witness ==
    /\ succeeded
    /\ config.extra_context.t = "object"
    /\ Len(config.extra_context.entries) = 2
    /\ Len(instructions) > 0
    /\ nonSystem(req.body.messages) # <<>>
    /\ \E i \in DOMAIN outbound : carriesContext(outbound[i])

\* C17: the outbound non-system messages are the inbound user/assistant
\* messages, same roles, same order, plain-string contents unmodified;
\* inbound system messages are dropped, none is added or duplicated.
C17_ConversationPreserved ==
    succeeded
    => LET inbound == nonSystem(req.body.messages)
           kept == nonSystem(outbound)
       IN  /\ Len(kept) = Len(inbound)
           /\ \A i \in DOMAIN inbound :
                 /\ kept[i].role = inbound[i].role
                 /\ inbound[i].content.kind = "string"
                      => kept[i].content = inbound[i].content
           /\ \A i \in DOMAIN outbound :
                 outbound[i].role = "system"
                 => \A m \in DOMAIN req.body.messages :
                       req.body.messages[m].role = "system"
                       => outbound[i].content # req.body.messages[m].content

\* two different plain messages around a dropped system message
C17_Witness ==
    /\ succeeded
    /\ Len(req.body.messages) = 3
    /\ req.body.messages[2].role = "system"
    /\ nonSystem(outbound)
         = <<Message("user", StringContent(<<"A">>)),
             Message("assistant", StringContent(<<"B">>))>>

\* C19: on success the augmented flag is true when the policy injected a
\* replacement prompt, an instruction or a context message, and false when
\* the outbound request is a pure pass-through of the inbound one.
C19_AugmentedFlag ==
    succeeded
    => (augmentation.result.augmented
          <=> \/ config.modified_system_prompt # <<>>
              \/ instructions # <<>>
              \/ contextConfigured)

\* C18: an inbound array of a single text block converts to the bare text
\* string; an inbound array of more than one block stays a sequence, for
\* every image source kind.
C18_Canonicalization ==
    (conversion.pc = "done" /\ conversion.content.kind = "array")
    => LET blocks == conversion.content.blocks
       IN  /\ (Len(blocks) = 1 /\ blocks[1].type = "text")
                => conversion.converted = StringContent(blocks[1].text)
           /\ Len(blocks) > 1 => conversion.converted.kind = "array"

\* the finish-reason table of the specification
stopReasonOf(finish_reason) ==
    CASE finish_reason = "stop" -> "end_turn"
      [] finish_reason = "length" -> "max_tokens"
      [] finish_reason = "tool_calls" -> "tool_use"
      [] finish_reason = "function_call" -> "tool_use"
      [] finish_reason = "content_filter" -> "stop_sequence"
      [] OTHER -> "end_turn"

\* C20: the finish-reason mapping is total: stop -> end_turn, length ->
\* max_tokens, tool_calls and function_call -> tool_use, content_filter ->
\* stop_sequence, and every other input, an absent one and any unrecognized
\* string included, -> end_turn.
C20_FinishReasonMapping ==
    (response.pc = "done" /\ response.data.choices # <<>>)
    => response.converted.stop_reason
         = stopReasonOf(response.data.choices[1].finish_reason)

\* what a conversion holds after it has read the text as a single chunk
readAtOnce(text) ==
    IF text = <<>> THEN NewConversion ELSE onChunk(NewConversion, text)

\* C27: the emitted events do not depend on how the provider's text is cut
\* into chunks: whenever the text read so far ends with a newline, the
\* events are those of the same text read as one chunk.
C27_ChunkingIndependent ==
    \A c \in DOMAIN conv :
        (conv[c].received # <<>> /\ Last(conv[c].received) = NL)
        => conv[c].out = readAtOnce(conv[c].received).out

\* a 'data: ' line that came in three chunks, cut after its prefix
C27_Witness ==
    \E c \in DOMAIN conv :
        /\ conv[c].received = <<Prefix, JsonA, NL>>
        /\ conv[c].cut
        /\ conv[c].buffer = <<>>
        /\ conv[c].out
             = <<MessageStart, ContentBlockStart, ContentBlockDelta("a")>>

\* C25: for every interleaving of two conversions each one emits the events
\* it would emit alone: its events, carry-over buffer, token counters and
\* start flag are those of its own text, its end that of its own source.
C25_ConversionsIndependent ==
    \A c \in DOMAIN conv :
        LET alone == readAtOnce(conv[c].received)
        IN  /\ conv[c].out = alone.out
            /\ conv[c].buffer = alone.buffer
            /\ conv[c].inputTokens = alone.inputTokens
            /\ conv[c].outputTokens = alone.outputTokens
            /\ conv[c].sentStart = alone.sentStart
            /\ conv[c].ctrl = CASE conv[c].source = "open" -> "readable"
                                [] conv[c].source = "closed" -> "closed"
                                [] OTHER -> "errored"

\* the second conversion has completed a line from its own carry-over while
\* the first holds a fragment of another line in its own
C25_Witness ==
    /\ DOMAIN conv = {1, 2}
    /\ conv[1].buffer = <<FrameB>>
    /\ conv[2].received = <<FrameA, NL>>
    /\ conv[2].cut
    /\ conv[2].out
         = <<MessageStart, ContentBlockStart, ContentBlockDelta("a")>>

\* C30: under fair scheduling the conversion reaches a terminal output
\* state, closed after a normal closure of the source and errored after a
\* read failure; it reads no further afterwards, and the output is not
\* closed while the source is still open.
C30_ReachesTerminalState ==
    /\ <>(conv[1].pc = "done" /\ conv[1].ctrl \in {"closed", "errored"})
    /\ [](conv[1].source = "closed" => conv[1].ctrl = "closed")
    /\ [](conv[1].source = "failed" => conv[1].ctrl = "errored")
    /\ [](conv[1].ctrl # "readable" => conv[1].source # "open")
    /\ [][conv[1].ctrl # "readable" => conv'[1] = conv[1]]_vars

\* the source closed after a line was read in two chunks and emitted
C30_Witness ==
    /\ conv[1].pc = "done"
    /\ conv[1].source = "closed"
    /\ conv[1].ctrl = "closed"
    /\ conv[1].cut
    /\ conv[1].received = <<FrameA, NL>>
    /\ Len(conv[1].out) = 3

\* C28: content-block conversion never drops a block: the converted
\* sequence, before canonicalization, has one outbound block per inbound
\* block in the same order, unrecognized blocks and images of any source
\* kind included.
C28_NoBlockDropped ==
    (conversion.pc = "done" /\ conversion.content.kind = "array")
    => LET blocks == conversion.content.blocks
       IN  /\ Len(conversion.pushed) = Len(blocks)
           /\ \A i \in DOMAIN blocks :
                 conversion.pushed[i].type
                     = IF blocks[i].type = "image" THEN "image_url"
                       ELSE blocks[i].type

\* C26: the non-streaming conversion never fails and returns a message of
\* type 'message', role 'assistant', stop_sequence null, with one text block
\* holding the first choice's message content; missing token counts default
\* to 0, a missing model to 'unknown', no choices to an empty text and
\* stop_reason end_turn.
C26_NonStreamingConversion ==
    response.pc = "done"
    => LET data == response.data
           message == response.converted
       IN  /\ ~response.threw
           /\ message.type = "message"
           /\ message.role = "assistant"
           /\ message.stop_sequence = "null"
           /\ Len(message.content) = 1
           /\ message.content[1].type = "text"
           /\ message.content[1].text
                = IF data.choices = <<>> THEN ""
                  ELSE data.choices[1].message.content
           /\ data.choices = <<>> => message.stop_reason = "end_turn"
           /\ message.model = IF data.model = "" THEN "unknown"
                              ELSE data.model
           /\ message.usage
                = IF data.usage = <<>>
                  THEN [input_tokens |-> 0, output_tokens |-> 0]
                  ELSE [input_tokens |-> data.usage[1],
                        output_tokens |-> data.usage[2]]

(***************************************************************************)
(* The middleware's claims (SpecHandle).                                   *)
(***************************************************************************)
handled == handling.pc = "done"
transportFailed == handled /\ handling.settled = "rejected"
networkError(message) ==
    /\ Len(message) > 0
    /\ message[1] = "Network error: Unable to reach OpenRouter endpoint - "
errorEnvelope(status, type) ==
    /\ handling.reply.status = status
    /\ handling.reply.sends = 1
    /\ handling.reply.body.kind = "error"
    /\ handling.reply.body.type = type

\* C21: whenever the call to the provider fails with a transport exception,
\* of whatever kind, the forward result is a failure with status 502 and a
\* message containing 'Network error', the reply is an error envelope of type
\* api_error with status 502, and the provider was called once only.
C21_TransportFailureIs502 ==
    transportFailed =>
        /\ ~handling.forwardResult.success
        /\ handling.forwardResult.errorCode = 502
        /\ networkError(handling.forwardResult.error)
        /\ errorEnvelope(502, "api_error")
        /\ handling.reply.body.message = handling.forwardResult.error
        /\ handling.fetches = 1

providerRefused ==
    handled /\ handling.settled = "resolved" /\ ~handling.provider.ok
\* the message of the provider's error body: OpenRouter sends it as
\* error.message, the forwarder's own tests as message
providerMessage ==
    IF handling.provider.nested # "" THEN handling.provider.nested
    ELSE handling.provider.message
providerSentMessage ==
    handling.provider.json = "object" /\ providerMessage # ""

\* C22: whenever the provider answers with a non-success status, the forward
\* result is a failure carrying exactly the provider's status code and, when
\* the provider sent one, the provider's own error message; the reply has that
\* same status and an error envelope with that message.
C22_ProviderErrorPropagated ==
    providerRefused =>
        /\ ~handling.forwardResult.success
        /\ handling.forwardResult.errorCode = handling.provider.status
        /\ handling.reply.status = handling.provider.status
        /\ handling.reply.sends = 1
        /\ handling.reply.body.kind = "error"
        /\ handling.reply.body.message = handling.forwardResult.error
        /\ providerSentMessage =>
               handling.forwardResult.error = <<providerMessage>>

\* the two detection criteria as the policy states them: a header of the
\* configured name (and value), a key of body.metadata at the configured path
\* (and of the configured value)
headerCriterion ==
    /\ config.detection.header_field # <<>>
    /\ \E i \in DOMAIN req.headers :
          /\ toLowerCase(req.headers[i][1])
                = toLowerCase(config.detection.header_field)
          /\ \/ config.detection.header_value = ""
             \/ req.headers[i][2] = config.detection.header_value
metadataCriterion ==
    /\ config.detection.metadata_field # <<>>
    /\ req.body.metadata.t = "object"
    /\ LET value == ownValue(req.body.metadata,
                             splitPath(config.detection.metadata_field))
       IN  /\ value.t # "undefined"
           /\ \/ config.detection.metadata_value = ""
              \/ value.s = config.detection.metadata_value
passesThrough ==
    ~config.enabled \/ (~headerCriterion /\ ~metadataCriterion)

\* C23: when the policy is disabled or the request matches no detection
\* criterion, handle returns false, the provider is not called and the reply
\* is as it was: no status, no header, nothing sent.
C23_PassThroughUntouched ==
    (handled /\ passesThrough) =>
        /\ handling.returned = "false"
        /\ handling.fetches = 0
        /\ handling.reply = NoReply

detectionMatches == isClaudeCodeRequest(config, req).result
validationSucceeds == validateConfig(config).success

\* C24: the provider is called at most once for a request, and exactly once
\* when detection matches and the policy is valid (and never otherwise);
\* whether the call fails, is refused or succeeds, no second call follows; and
\* a request for which handle returned true has had exactly one reply sent.
C24_OneCallOneReply ==
    /\ handling.fetches <= 1
    /\ handling.reply.sends <= 1
    /\ handling.pc # "call" =>
          ((handling.fetches = 1) <=> (detectionMatches /\ validationSucceeds))
    /\ handling.settled # "pending" => handling.fetches = 1
    /\ (handled /\ handling.returned = "true") => handling.reply.sends = 1

\* the call failed in the transport, was refused by the provider, or
\* succeeded: one call, one reply
C24_Witness ==
    /\ handled
    /\ handling.returned = "true"
    /\ handling.fetches = 1
    /\ handling.reply.sends = 1
    /\ handling.settled = "rejected"

\* C29: the branch taken on the provider's response agrees with the stream
\* flag of the outbound body: the streaming transcoder runs only when the
\* body sent carried stream = true, the JSON conversion only when it did not.
C29_PathAgreesWithStreamFlag ==
    (handled /\ handling.path # "none") =>
        ((handling.path = "streaming") <=> (handling.sent.stream = "true"))

=============================================================================
